---- MODULE Spec2Model ----
(***************************************************************************)
(* getconf: ConfigGetter, a layered configuration reader                   *)
(* (environment > parsed files > default table > caller default), and its  *)
(* section proxy ConfigSectionGetter.  Source: src/getconf/base.py.        *)
(*                                                                         *)
(* Text is a sequence of one-character strings, so that splitting,         *)
(* case-mapping, joining, ordering and number parsing are computed.        *)
(***************************************************************************)
EXTENDS Integers, Sequences, FiniteSets, TLC

(***************************************************************************)
(* Text primitives (Python unicode methods used by base.py)                *)
(***************************************************************************)
LowerLetters == <<"a","b","c","d","e","f","g","h","i","j","k","l","m",
                  "n","o","p","q","r","s","t","u","v","w","x","y","z">>
UpperLetters == <<"A","B","C","D","E","F","G","H","I","J","K","L","M",
                  "N","O","P","Q","R","S","T","U","V","W","X","Y","Z">>
Digits == <<"0","1","2","3","4","5","6","7","8","9">>

IndexIn(c, s) == IF \E i \in 1..Len(s) : s[i] = c
                 THEN CHOOSE i \in 1..Len(s) : s[i] = c
                 ELSE 0

\* Code point of a character (ASCII), the order Python compares text by.
Ord(c) ==
  IF IndexIn(c, Digits) > 0 THEN 47 + IndexIn(c, Digits)
  ELSE IF IndexIn(c, UpperLetters) > 0 THEN 64 + IndexIn(c, UpperLetters)
  ELSE IF IndexIn(c, LowerLetters) > 0 THEN 96 + IndexIn(c, LowerLetters)
  ELSE CASE c = " " -> 32 [] c = "'" -> 39 [] c = "(" -> 40
         [] c = ")" -> 41 [] c = "*" -> 42 [] c = "+" -> 43
         [] c = "," -> 44 [] c = "-" -> 45 [] c = "." -> 46 [] c = "/" -> 47
         [] c = ";" -> 59 [] c = "[" -> 91 [] c = "]" -> 93 [] c = "_" -> 95
         [] c = "~" -> 126

UpperChar(c) == IF IndexIn(c, LowerLetters) > 0
                THEN UpperLetters[IndexIn(c, LowerLetters)] ELSE c
LowerChar(c) == IF IndexIn(c, UpperLetters) > 0
                THEN LowerLetters[IndexIn(c, UpperLetters)] ELSE c

\* str.upper() / str.lower()
Upper(s) == [i \in 1..Len(s) |-> UpperChar(s[i])]
Lower(s) == [i \in 1..Len(s) |-> LowerChar(s[i])]

\* Text comparison a < b (lexicographic by code point).
RECURSIVE TextLess(_, _)
TextLess(a, b) ==
  IF b = <<>> THEN FALSE
  ELSE IF a = <<>> THEN TRUE
  ELSE IF a[1] # b[1] THEN Ord(a[1]) < Ord(b[1])
  ELSE TextLess(Tail(a), Tail(b))

\* sep.join(parts)
RECURSIVE JoinWith(_, _)
JoinWith(sep, parts) ==
  IF parts = <<>> THEN <<>>
  ELSE IF Len(parts) = 1 THEN parts[1]
  ELSE parts[1] \o sep \o JoinWith(sep, Tail(parts))

\* Position of the first occurrence of character c in s, 0 when absent.
FirstIndex(c, s) == IF \E i \in 1..Len(s) : s[i] = c
                    THEN CHOOSE i \in 1..Len(s) :
                           s[i] = c /\ \A j \in 1..(i-1) : s[j] # c
                    ELSE 0

\* s.split(sep): every piece between separators, empty pieces kept.
RECURSIVE SplitAll(_, _)
SplitAll(s, sep) ==
  IF FirstIndex(sep, s) = 0 THEN <<s>>
  ELSE <<SubSeq(s, 1, FirstIndex(sep, s) - 1)>>
       \o SplitAll(SubSeq(s, FirstIndex(sep, s) + 1, Len(s)), sep)

\* s.strip(): leading and trailing blanks removed.
RECURSIVE LStrip(_)
LStrip(s) == IF s # <<>> /\ s[1] = " " THEN LStrip(Tail(s)) ELSE s
RECURSIVE RStrip(_)
RStrip(s) == IF s # <<>> /\ s[Len(s)] = " "
             THEN RStrip(SubSeq(s, 1, Len(s) - 1)) ELSE s
Strip(s) == RStrip(LStrip(s))

SelectNonEmpty(parts) == SelectSeq(parts, LAMBDA p : p # <<>>)

(***************************************************************************)
(* Python values.  One record shape for every value:                       *)
(*   t  the type ("none","text","bool","int","float","list","tuple")       *)
(*   s  the characters of a text                                           *)
(*   n  the number: an int, a bool as 0/1, the mantissa of a float         *)
(*   e  the number of decimal places of a float (value = n / 10^e)         *)
(*   l  the elements (texts) of a list or tuple                            *)
(***************************************************************************)
NoneV == [t |-> "none", s |-> <<>>, n |-> 0, e |-> 0, l |-> <<>>]
TextV(s) == [t |-> "text", s |-> s, n |-> 0, e |-> 0, l |-> <<>>]
BoolV(b) == [t |-> "bool", s |-> <<>>, n |-> IF b THEN 1 ELSE 0, e |-> 0, l |-> <<>>]
IntV(n) == [t |-> "int", s |-> <<>>, n |-> n, e |-> 0, l |-> <<>>]
RECURSIVE FloatV(_, _)
FloatV(m, e) == IF e > 0 /\ m % 10 = 0 THEN FloatV(m \div 10, e - 1)
                ELSE [t |-> "float", s |-> <<>>, n |-> m, e |-> e, l |-> <<>>]
ListV(l) == [t |-> "list", s |-> <<>>, n |-> 0, e |-> 0, l |-> l]
TupleV(l) == [t |-> "tuple", s |-> <<>>, n |-> 0, e |-> 0, l |-> l]

\* isinstance(v, cls): bool is a subclass of int in Python.
IsInstance(v, cls) ==
  CASE cls = "unicode" -> v.t = "text"
    [] cls = "bool" -> v.t = "bool"
    [] cls = "int" -> v.t \in {"int", "bool"}
    [] cls = "float" -> v.t = "float"
    [] cls = "list_or_tuple" -> v.t \in {"list", "tuple"}

AllDigits(s) == s # <<>> /\ \A i \in 1..Len(s) : IndexIn(s[i], Digits) > 0

RECURSIVE DigitsValue(_)
DigitsValue(s) == IF s = <<>> THEN 0
                  ELSE 10 * DigitsValue(SubSeq(s, 1, Len(s) - 1))
                       + (IndexIn(s[Len(s)], Digits) - 1)

RECURSIVE DigitsOf(_)
DigitsOf(n) == IF n < 10 THEN <<Digits[n + 1]>>
               ELSE DigitsOf(n \div 10) \o <<Digits[(n % 10) + 1]>>

RECURSIVE Pow10(_)
Pow10(e) == IF e = 0 THEN 1 ELSE 10 * Pow10(e - 1)

RECURSIVE ZeroPad(_, _)
ZeroPad(s, width) == IF Len(s) >= width THEN s ELSE ZeroPad(<<"0">> \o s, width)

HasSign(s) == s # <<>> /\ s[1] \in {"+", "-"}
Unsigned(s) == IF HasSign(s) THEN Tail(s) ELSE s
SignOf(s) == IF s # <<>> /\ s[1] = "-" THEN -1 ELSE 1

\* int(text): blanks stripped, optional sign, then decimal digits only.
IntWellFormed(s) == AllDigits(Unsigned(Strip(s)))
IntOfText(s) == SignOf(Strip(s)) * DigitsValue(Unsigned(Strip(s)))

\* float(text) over digits, sign, point and blanks: digits with an optional
\* point, at least one digit (the value texts of this model hold no exponent
\* and no inf/nan spelling).
FloatIntPart(s) == IF FirstIndex(".", s) = 0 THEN s
                   ELSE SubSeq(s, 1, FirstIndex(".", s) - 1)
FloatFracPart(s) == IF FirstIndex(".", s) = 0 THEN <<>>
                    ELSE SubSeq(s, FirstIndex(".", s) + 1, Len(s))
FloatBodyOk(s) ==
  /\ FloatIntPart(s) = <<>> \/ AllDigits(FloatIntPart(s))
  /\ FloatFracPart(s) = <<>> \/ AllDigits(FloatFracPart(s))
  /\ FloatIntPart(s) \o FloatFracPart(s) # <<>>
FloatWellFormed(s) == FloatBodyOk(Unsigned(Strip(s)))
FloatOfText(s) ==
  FloatV(SignOf(Strip(s))
           * DigitsValue(FloatIntPart(Unsigned(Strip(s)))
                           \o FloatFracPart(Unsigned(Strip(s)))),
         Len(FloatFracPart(Unsigned(Strip(s)))))

\* Truncation toward zero of n / d, d > 0.
TruncDiv(n, d) == IF n >= 0 THEN n \div d ELSE -((-n) \div d)

\* compat.text_type(v): str() of a value.
Quoted(s) == <<"'">> \o s \o <<"'">>
TextType(v) ==
  CASE v.t = "text" -> v.s
    [] v.t = "none" -> <<"N","o","n","e">>
    [] v.t = "bool" -> IF v.n = 1 THEN <<"T","r","u","e">> ELSE <<"F","a","l","s","e">>
    [] v.t = "int" -> (IF v.n < 0 THEN <<"-">> ELSE <<>>)
                        \o DigitsOf(IF v.n < 0 THEN -v.n ELSE v.n)
    [] v.t = "float" ->
         (IF v.n < 0 THEN <<"-">> ELSE <<>>)
           \o DigitsOf((IF v.n < 0 THEN -v.n ELSE v.n) \div Pow10(v.e))
           \o <<".">>
           \o (IF v.e = 0 THEN <<"0">>
               ELSE ZeroPad(DigitsOf((IF v.n < 0 THEN -v.n ELSE v.n) % Pow10(v.e)), v.e))
    [] v.t = "list" ->
         <<"[">> \o JoinWith(<<",", " ">>, [i \in 1..Len(v.l) |-> Quoted(v.l[i])]) \o <<"]">>
    [] v.t = "tuple" ->
         <<"(">> \o JoinWith(<<",", " ">>, [i \in 1..Len(v.l) |-> Quoted(v.l[i])])
                 \o (IF Len(v.l) = 1 THEN <<",">> ELSE <<>>) \o <<")">>

(***************************************************************************)
(* State                                                                   *)
(***************************************************************************)
VARIABLES
  phase,               \* "new" before __init__, "ready" after it, "failed" if it raised
  namespace,           \* self.namespace
  config_files,        \* the config_files argument of __init__ (sequence of values)
  defaults_arg,        \* the defaults argument of __init__ (NoneTable or a table)
  environ,             \* os.environ: variable name -> text
  files,               \* the file system: path of a regular file -> its content
  search_files,        \* self.search_files
  final_config_files,  \* the list handed to parser.read
  found_files,         \* self.found_files
  parser,              \* self.parser: [sections, opts]
  defaults,            \* self.defaults: section -> (key -> value)
  seen_keys,           \* self.seen_keys
  ret,                 \* the most recent call and its outcome
  prev,                \* the call before it
  asked,               \* history: the (key, doc) pairs that reached _get, in call order
  budget,              \* number of calls the caller still makes
  envchanges           \* number of changes made to the environment

vars == <<phase, namespace, config_files, defaults_arg, environ, files,
          search_files, final_config_files, found_files, parser, defaults,
          seen_keys, ret, prev, asked, budget, envchanges>>

inputs == <<namespace, config_files, defaults_arg, files>>
instance == <<search_files, final_config_files, found_files, parser, defaults>>

(***************************************************************************)
(* The file system seen by os.path and glob                                *)
(***************************************************************************)
Cwd == <<"/", "w">>
Home == <<"/", "h">>
Dirs == { <<"/">>, <<"/", "w">>, <<"/", "h">>, <<"/", "d">>, <<"/", "d", "/", "s">> }

StartsWith(s, c) == s # <<>> /\ s[1] = c

\* os.path.expanduser: a leading "~" (alone or before "/") becomes the home.
expanduser(path) ==
  IF StartsWith(path, "~") /\ (Len(path) = 1 \/ path[2] = "/")
  THEN Home \o Tail(path)
  ELSE path

\* os.path.normpath on the components of an absolute path.
RECURSIVE NormComponents(_, _)
NormComponents(todo, done) ==
  IF todo = <<>> THEN done
  ELSE IF todo[1] = <<>> \/ todo[1] = <<".">> THEN NormComponents(Tail(todo), done)
  ELSE IF todo[1] = <<".", ".">>
       THEN NormComponents(Tail(todo),
                           IF done = <<>> THEN done ELSE SubSeq(done, 1, Len(done) - 1))
  ELSE NormComponents(Tail(todo), Append(done, todo[1]))

\* os.path.abspath: relative paths are taken from the working directory.
abspath(path) ==
  <<"/">> \o JoinWith(<<"/">>,
                      NormComponents(SplitAll(IF StartsWith(path, "/") THEN path
                                              ELSE Cwd \o <<"/">> \o path, "/"),
                                     <<>>))

isdir(path) == path \in Dirs

\* os.path.join(path, '*')
join_star(path) == IF path[Len(path)] = "/" THEN path \o <<"*">>
                   ELSE path \o <<"/", "*">>

\* fnmatch of one pattern against one path, "*" standing for any run of
\* characters other than "/"; atStart: at the first character of a component
\* (a wildcard there does not match a name that begins with ".").
RECURSIVE GlobMatch(_, _, _)
GlobMatch(pat, path, atStart) ==
  IF pat = <<>> THEN path = <<>>
  ELSE IF pat[1] = "*"
       THEN /\ ~(atStart /\ StartsWith(path, "."))
            /\ \/ GlobMatch(Tail(pat), path, FALSE)
               \/ /\ path # <<>>
                  /\ path[1] # "/"
                  /\ GlobMatch(pat, Tail(path), FALSE)
  ELSE /\ path # <<>>
       /\ path[1] = pat[1]
       /\ GlobMatch(Tail(pat), Tail(path), pat[1] = "/")

\* glob.glob(path): the existing entries the pattern matches (in no order).
glob(path) == { f \in (DOMAIN files) \cup Dirs : GlobMatch(path, f, FALSE) }

\* sorted(texts): ascending by TextLess.
RECURSIVE sorted(_)
sorted(S) ==
  IF S = {} THEN <<>>
  ELSE <<CHOOSE m \in S : \A o \in S : o = m \/ TextLess(m, o)>>
       \o sorted(S \ {CHOOSE m \in S : \A o \in S : o = m \/ TextLess(m, o)})

(***************************************************************************)
(* configparser.ConfigParser: read() and get()                             *)
(***************************************************************************)
DEFAULTSECT == <<"D","E","F","A","U","L","T">>
Malformed == <<<<"!">>>>
EmptyParser == [sections |-> {}, opts |-> <<>>]
NoTable == <<>>

\* One parsed line "option = value" of [section]: option names go through
\* optionxform (lower-cased); a later value replaces an earlier one.
ParseEntry(p, entry) ==
  [sections |-> IF entry[1] = DEFAULTSECT THEN p.sections
                ELSE p.sections \cup {entry[1]},
   opts |-> [k \in (DOMAIN p.opts) \cup {<<entry[1], Lower(entry[2])>>} |->
               IF k = <<entry[1], Lower(entry[2])>> THEN entry[3] ELSE p.opts[k]]]

RECURSIVE ParseFile(_, _)
ParseFile(p, content) ==
  IF content = <<>> THEN p
  ELSE ParseFile(ParseEntry(p, content[1]), Tail(content))

\* The paths of a list that parser.read opens: existing regular files.
Readable(paths) == SelectSeq(paths, LAMBDA f : f \in DOMAIN files)

\* parser.read(filenames): the files are parsed from left to right into one
\* store, so a later file replaces the values of an earlier one.
RECURSIVE parser_read(_, _)
parser_read(p, paths) ==
  IF paths = <<>> THEN p
  ELSE parser_read(ParseFile(p, files[paths[1]]), Tail(paths))

parser_has(section, key) ==
  /\ section = DEFAULTSECT \/ section \in parser.sections
  /\ \/ <<section, Lower(key)>> \in DOMAIN parser.opts
     \/ <<DEFAULTSECT, Lower(key)>> \in DOMAIN parser.opts

\* parser.get(section, key): the section's own option, else the DEFAULT one.
parser_get(section, key) ==
  IF <<section, Lower(key)>> \in DOMAIN parser.opts
  THEN parser.opts[<<section, Lower(key)>>]
  ELSE parser.opts[<<DEFAULTSECT, Lower(key)>>]

(***************************************************************************)
(* ConfigGetter                                                            *)
(***************************************************************************)
MaxEnvChanges == 2

ConfigKey(section, entry, envvar, doc) ==
  [section |-> section, entry |-> entry, envvar |-> envvar, doc |-> doc]

\* _env_key(key, section=''): the parts upper-cased one by one, joined by "_".
_env_key(key, section) ==
  IF section # <<>>
  THEN JoinWith(<<"_">>, <<Upper(namespace), Upper(section), Upper(key)>>)
  ELSE JoinWith(<<"_">>, <<Upper(namespace), Upper(key)>>)

\* __init__: os.environ.get(self._env_key('config'), None)
extra_config_file ==
  IF _env_key(<<"c","o","n","f","i","g">>, <<>>) \in DOMAIN environ
  THEN TextV(environ[_env_key(<<"c","o","n","f","i","g">>, <<>>)])
  ELSE NoneV

\* __init__: one pass of the first loop, for a path that is not None.
search_path(path) ==
  IF isdir(abspath(expanduser(path)))
  THEN join_star(abspath(expanduser(path)))
  ELSE abspath(expanduser(path))

\* __init__: the first loop, over list(config_files) + [extra_config_file].
RECURSIVE build_search_files(_)
build_search_files(paths) ==
  IF paths = <<>> THEN <<>>
  ELSE IF paths[1] = NoneV THEN build_search_files(Tail(paths))
  ELSE <<search_path(paths[1].s)>> \o build_search_files(Tail(paths))

\* __init__: the second loop, extending by sorted(glob.glob(path)).
RECURSIVE build_final_config_files(_)
build_final_config_files(paths) ==
  IF paths = <<>> THEN <<>>
  ELSE sorted(glob(paths[1])) \o build_final_config_files(Tail(paths))

\* (mutation: the file named by the environment is searched first)
init_search_files_envfirst == build_search_files(<<extra_config_file>> \o config_files)

init_search_files == build_search_files(config_files \o <<extra_config_file>>)
init_final_config_files == build_final_config_files(init_search_files)

\* self.defaults = defaults or {}
init_defaults == IF defaults_arg.none THEN NoTable ELSE defaults_arg.table

NoRet == [op |-> "none", key |-> <<>>, default |-> NoneV, doc |-> <<>>,
          sep |-> ",", section |-> <<>>, entry |-> <<>>,
          exc |-> "none", value |-> NoneV, keys |-> <<>>,
          before |-> {}, stale |-> FALSE]

\* ConfigGetter(namespace, config_files, defaults)
Construct ==
  /\ phase = "new"
  /\ search_files' = init_search_files
  /\ final_config_files' = init_final_config_files
  /\ IF \E i \in 1..Len(Readable(init_final_config_files)) :
          files[Readable(init_final_config_files)[i]] = Malformed
     THEN /\ phase' = "failed"
          /\ UNCHANGED <<parser, found_files>>
     ELSE /\ phase' = "ready"
          /\ parser' = parser_read(EmptyParser, Readable(init_final_config_files))
          /\ found_files' = Readable(init_final_config_files)
  /\ defaults' = init_defaults
  /\ seen_keys' = {}
  /\ UNCHANGED <<inputs, environ, ret, prev, asked, budget, envchanges>>

\* The NotFound signal of the three sources.
NotFound == [found |-> FALSE, value |-> NoneV]
Found(v) == [found |-> TRUE, value |-> v]

_read_env(key) ==
  IF key \in DOMAIN environ THEN Found(TextV(environ[key])) ELSE NotFound

_read_parser(config_section, key) ==
  IF parser_has(config_section, key)
  THEN Found(TextV(parser_get(config_section, key)))
  ELSE NotFound

\* self.defaults[section][key], KeyError caught
read_defaults(section, key) ==
  IF section \in DOMAIN defaults /\ key \in DOMAIN defaults[section]
  THEN Found(defaults[section][key])
  ELSE NotFound

\* (mutation: the parsed files are asked before the environment)
_read_files_first(env_key, section, key, default) ==
  IF _read_parser(section, key).found THEN _read_parser(section, key).value
  ELSE IF _read_env(env_key).found THEN _read_env(env_key).value
  ELSE IF read_defaults(section, key).found THEN read_defaults(section, key).value
  ELSE default

\* (mutation: nothing is returned when no source has the key)
_read_default_dropped(env_key, section, key, default) ==
  IF _read_env(env_key).found THEN _read_env(env_key).value
  ELSE IF _read_parser(section, key).found THEN _read_parser(section, key).value
  ELSE IF read_defaults(section, key).found THEN read_defaults(section, key).value
  ELSE NoneV

_read(env_key, section, key, default) ==
  IF _read_env(env_key).found THEN _read_env(env_key).value
  ELSE IF _read_parser(section, key).found THEN _read_parser(section, key).value
  ELSE IF read_defaults(section, key).found THEN read_defaults(section, key).value
  ELSE default

\* (mutation: the key is split at its last '.')
LastIndex(c, s) == IF \E i \in 1..Len(s) : s[i] = c
                   THEN CHOOSE i \in 1..Len(s) :
                          s[i] = c /\ \A j \in (i+1)..Len(s) : s[j] # c
                   ELSE 0
split_section_last(key) ==
  IF LastIndex(".", key) > 0 THEN SubSeq(key, 1, LastIndex(".", key) - 1) ELSE <<>>

\* _get: key.split('.', 1) when '.' in key
split_section(key) ==
  IF FirstIndex(".", key) > 0 THEN SubSeq(key, 1, FirstIndex(".", key) - 1) ELSE <<>>
split_entry(key) ==
  IF FirstIndex(".", key) > 0 THEN SubSeq(key, FirstIndex(".", key) + 1, Len(key)) ELSE key
config_section_of(section) == IF section # <<>> THEN section ELSE DEFAULTSECT

\* (mutation: the default table and the store are read under the bare section)
_get_bare_section(key, default, doc) ==
  [value |-> _read(_env_key(split_entry(key), split_section(key)),
                   split_section(key), split_entry(key), default),
   seen |-> {ConfigKey(config_section_of(split_section(key)), split_entry(key),
                       _env_key(split_entry(key), split_section(key)), doc)}]

\* (mutation: a key is recorded only when a source answered it)
_get_seen_if_found(key, default, doc) ==
  [value |-> _read(_env_key(split_entry(key), split_section(key)),
                   config_section_of(split_section(key)), split_entry(key), default),
   seen |-> IF _read(_env_key(split_entry(key), split_section(key)),
                     config_section_of(split_section(key)), split_entry(key), default)
               = default
            THEN {}
            ELSE {ConfigKey(config_section_of(split_section(key)), split_entry(key),
                            _env_key(split_entry(key), split_section(key)), doc)}]

\* _get(key, default, doc): the value read and the ConfigKey added to seen_keys.
_get(key, default, doc) ==
  [value |-> _read(_env_key(split_entry(key), split_section(key)),
                   config_section_of(split_section(key)), split_entry(key), default),
   seen |-> {ConfigKey(config_section_of(split_section(key)), split_entry(key),
                       _env_key(split_entry(key), split_section(key)), doc)}]

\* Outcome of a call: the exception raised ("none" when it returned), the value
\* returned, the records it added to seen_keys.
Raise(e, seen) == [exc |-> e, value |-> NoneV, seen |-> seen]
Return(v, seen) == [exc |-> "none", value |-> v, seen |-> seen]

get(key, default, doc) ==
  IF ~(default = NoneV \/ IsInstance(default, "unicode"))
  THEN Raise("AssertionError", {})
  ELSE Return(_get(key, default, doc).value, _get(key, default, doc).seen)

getstr(key, default, doc) ==
  IF ~(default = NoneV \/ IsInstance(default, "unicode"))
  THEN Raise("AssertionError", {})
  ELSE Return(_get(key, default, doc).value, _get(key, default, doc).seen)

\* list(value)
list_of(v, seen) ==
  IF v.t \in {"list", "tuple"} THEN Return(ListV(v.l), seen)
  ELSE Raise("TypeError", seen)

getlist(key, default, doc, sep) ==
  IF ~(IsInstance(default, "unicode") \/ default = NoneV
       \/ IsInstance(default, "list_or_tuple"))
  THEN Raise("AssertionError", {})
  ELSE IF IsInstance(_get(key, default, doc).value, "unicode")
       THEN Return(ListV(SelectNonEmpty(
                     [i \in 1..Len(SplitAll(_get(key, default, doc).value.s, sep)) |->
                        Strip(SplitAll(_get(key, default, doc).value.s, sep)[i])])),
                   _get(key, default, doc).seen)
  ELSE IF _get(key, default, doc).value = NoneV
       THEN Return(NoneV, _get(key, default, doc).seen)
  ELSE list_of(_get(key, default, doc).value, _get(key, default, doc).seen)

TrueTexts == { <<"o","n">>, <<"t","r","u","e">>, <<"y","e","s">>, <<"1">> }

getbool(key, default, doc) ==
  IF ~(default = NoneV \/ IsInstance(default, "bool"))
  THEN Raise("AssertionError", {})
  ELSE IF _get(key, default, doc).value = NoneV
       THEN Return(NoneV, _get(key, default, doc).seen)
  ELSE Return(BoolV(Lower(TextType(_get(key, default, doc).value)) \in TrueTexts),
              _get(key, default, doc).seen)

\* (mutation: text that is no integer gives None instead of an error)
int_of_lenient(v, seen) ==
  CASE v.t = "text" -> IF IntWellFormed(v.s) THEN Return(IntV(IntOfText(v.s)), seen)
                       ELSE Return(NoneV, seen)
    [] v.t \in {"int", "bool"} -> Return(IntV(v.n), seen)
    [] v.t = "float" -> Return(IntV(TruncDiv(v.n, Pow10(v.e))), seen)
    [] OTHER -> Raise("TypeError", seen)

\* int(value)
int_of(v, seen) ==
  CASE v.t = "text" -> IF IntWellFormed(v.s) THEN Return(IntV(IntOfText(v.s)), seen)
                       ELSE Raise("ValueError", seen)
    [] v.t \in {"int", "bool"} -> Return(IntV(v.n), seen)
    [] v.t = "float" -> Return(IntV(TruncDiv(v.n, Pow10(v.e))), seen)
    [] OTHER -> Raise("TypeError", seen)

getint(key, default, doc) ==
  IF ~(default = NoneV \/ IsInstance(default, "int"))
  THEN Raise("AssertionError", {})
  ELSE IF _get(key, default, doc).value = NoneV
       THEN Return(NoneV, _get(key, default, doc).seen)
  ELSE int_of(_get(key, default, doc).value, _get(key, default, doc).seen)

\* float(value)
float_of(v, seen) ==
  CASE v.t = "text" -> IF FloatWellFormed(v.s) THEN Return(FloatOfText(v.s), seen)
                       ELSE Raise("ValueError", seen)
    [] v.t \in {"int", "bool"} -> Return(FloatV(v.n, 0), seen)
    [] v.t = "float" -> Return(v, seen)
    [] OTHER -> Raise("TypeError", seen)

\* (mutation: the default is validated after the lookup)
getfloat_late_assert(key, default, doc) ==
  IF ~(default = NoneV \/ IsInstance(default, "float"))
  THEN Raise("AssertionError", _get(key, default, doc).seen)
  ELSE IF _get(key, default, doc).value = NoneV
       THEN Return(NoneV, _get(key, default, doc).seen)
  ELSE float_of(_get(key, default, doc).value, _get(key, default, doc).seen)

getfloat(key, default, doc) ==
  IF ~(default = NoneV \/ IsInstance(default, "float"))
  THEN Raise("AssertionError", {})
  ELSE IF _get(key, default, doc).value = NoneV
       THEN Return(NoneV, _get(key, default, doc).seen)
  ELSE float_of(_get(key, default, doc).value, _get(key, default, doc).seen)

\* ConfigKey a < b: namedtuples compare field by field.
KeyLess(a, b) ==
  IF a.section # b.section THEN TextLess(a.section, b.section)
  ELSE IF a.entry # b.entry THEN TextLess(a.entry, b.entry)
  ELSE IF a.envvar # b.envvar THEN TextLess(a.envvar, b.envvar)
  ELSE TextLess(a.doc, b.doc)

RECURSIVE sorted_keys(_)
sorted_keys(S) ==
  IF S = {} THEN <<>>
  ELSE <<CHOOSE m \in S : \A o \in S : o = m \/ KeyLess(m, o)>>
       \o sorted_keys(S \ {CHOOSE m \in S : \A o \in S : o = m \/ KeyLess(m, o)})

list_keys == sorted_keys(seen_keys)

(***************************************************************************)
(* ConfigSectionGetter                                                     *)
(***************************************************************************)
\* get_section(section_name): the proxy holds the getter and the section name.
get_section(section_name) == [base_config |-> "self", section |-> section_name]

\* (mutation: the proxy asks with None as the default)
getitem_none_default(view, key) == get(view.section \o <<".">> \o key, NoneV, <<>>)

\* __getitem__(key): self.base_config.get('%s.%s' % (self.section, key))
getitem(view, key) == get(view.section \o <<".">> \o key, TextV(<<>>), <<>>)

(***************************************************************************)
(* Calls of the public methods, and changes of the process environment     *)
(***************************************************************************)
NoPrev == [key |-> <<>>, value |-> NoneV, exc |-> "none", fresh |-> FALSE]

\* One call by the user: its outcome is recorded in ret, the ConfigKey records
\* it added go to seen_keys.
Call(op, key, default, doc, sep, section, entry, out) ==
  /\ phase = "ready"
  /\ budget > 0
  /\ budget' = budget - 1
  /\ seen_keys' = seen_keys \cup out.seen
  /\ asked' = IF out.exc = "AssertionError" THEN asked ELSE Append(asked, <<key, doc>>)
  /\ ret' = [op |-> op, key |-> key, default |-> default, doc |-> doc, sep |-> sep,
             section |-> section, entry |-> entry,
             exc |-> out.exc, value |-> out.value, keys |-> <<>>,
             before |-> seen_keys, stale |-> FALSE]
  /\ prev' = IF ret.op = "getitem"
             THEN [key |-> ret.key, value |-> ret.value, exc |-> ret.exc, fresh |-> TRUE]
             ELSE prev
  /\ UNCHANGED <<phase, inputs, instance, environ, envchanges>>

GetStr(K, D, Docs) ==
  \E key \in K, default \in D, doc \in Docs :
    Call("getstr", key, default, doc, ",", <<>>, <<>>, getstr(key, default, doc))

Get(K, D, Docs) ==
  \E key \in K, default \in D, doc \in Docs :
    Call("get", key, default, doc, ",", <<>>, <<>>, get(key, default, doc))

GetList(K, D, Docs, Seps) ==
  \E key \in K, default \in D, doc \in Docs, sep \in Seps :
    Call("getlist", key, default, doc, sep, <<>>, <<>>, getlist(key, default, doc, sep))

GetBool(K, D, Docs) ==
  \E key \in K, default \in D, doc \in Docs :
    Call("getbool", key, default, doc, ",", <<>>, <<>>, getbool(key, default, doc))

GetInt(K, D, Docs) ==
  \E key \in K, default \in D, doc \in Docs :
    Call("getint", key, default, doc, ",", <<>>, <<>>, getint(key, default, doc))

GetFloat(K, D, Docs) ==
  \E key \in K, default \in D, doc \in Docs :
    Call("getfloat", key, default, doc, ",", <<>>, <<>>, getfloat(key, default, doc))

\* config.get_section(section)[entry]
GetItem(Sections, Entries) ==
  \E section \in Sections, entry \in Entries :
    Call("getitem", section \o <<".">> \o entry, TextV(<<>>), <<>>, ",",
         section, entry, getitem(get_section(section), entry))

\* config.list_keys()
ListKeys ==
  /\ phase = "ready"
  /\ budget > 0
  /\ budget' = budget - 1
  /\ ret' = [NoRet EXCEPT !.op = "list_keys", !.keys = list_keys, !.before = seen_keys]
  /\ UNCHANGED <<phase, inputs, instance, environ, envchanges, seen_keys, asked, prev>>

\* The process environment changes between two calls.
SetEnv(Names, Values) ==
  \E name \in Names, value \in Values :
    /\ envchanges < MaxEnvChanges
    /\ envchanges' = envchanges + 1
    /\ environ' = [n \in (DOMAIN environ) \cup {name} |->
                     IF n = name THEN value ELSE environ[n]]
    /\ ret' = [ret EXCEPT !.stale = (ret.op # "none")]
    /\ UNCHANGED <<phase, inputs, instance, seen_keys, asked, budget, prev>>

UnsetEnv(Names) ==
  \E name \in Names :
    /\ envchanges < MaxEnvChanges
    /\ name \in DOMAIN environ
    /\ envchanges' = envchanges + 1
    /\ environ' = [n \in (DOMAIN environ) \ {name} |-> environ[n]]
    /\ ret' = [ret EXCEPT !.stale = (ret.op # "none")]
    /\ UNCHANGED <<phase, inputs, instance, seen_keys, asked, budget, prev>>

(***************************************************************************)
(* Inputs of the explored runs                                             *)
(***************************************************************************)
MaxCandidates == 2
MaxFileCalls == 1

SecA == <<"a">>
SecT == <<"t">>
OptB == <<"b">>
OptC == <<"c">>

\* every file present: two files and a hidden one in /d (next to the
\* directory /d/s), one in the working directory, one in the home, and /x
FsFull ==
  (<<"/","d","/","1","0">> :> << <<SecA, OptB, <<"1","0">>>>, <<DEFAULTSECT, OptC, <<"1","0">>>> >>)
  @@ (<<"/","d","/","9">> :> << <<SecA, OptB, <<"9">>>> >>)
  @@ (<<"/","d","/",".","h">> :> << <<SecA, OptB, <<"h","i","d">>>> >>)
  @@ (<<"/","w","/","k">> :> << <<SecA, OptB, <<"k">>>>, <<DEFAULTSECT, OptC, <<"k">>>> >>)
  @@ (<<"/","x">> :> << <<SecA, <<"B">>, <<"x">>>>, <<DEFAULTSECT, OptC, <<"x">>>> >>)
  @@ (<<"/","h","/","r">> :>
        << <<SecA, OptB, <<"r">>>>,
           <<SecT, <<"i">>, <<" ","1","2"," ">>>>,
           <<SecT, <<"f">>, <<"1",".","5">>>>,
           <<SecT, <<"l">>, <<" ","a",","," ","b"," ",",",",","c"," ">>>>,
           <<SecT, <<"o">>, <<"O","n">>>> >>)

\* fewer files, and /x does not parse
FsSparse ==
  (<<"/","d","/","1","0">> :> << <<DEFAULTSECT, OptC, <<"1","0">>>> >>)
  @@ (<<"/","d","/","9">> :> << <<SecA, OptB, <<"9">>>> >>)
  @@ (<<"/","w","/","k">> :> << <<DEFAULTSECT, OptC, <<"k">>>> >>)
  @@ (<<"/","x">> :> Malformed)

PathD == <<"/","d">>
PathGlob == <<"/","d","/","1","*">>
PathHomeR == <<"~","/","r">>
PathRelK == <<"k">>
PathX == <<"/","x">>
PathNone == <<"/","n">>

Candidates == { TextV(PathD), TextV(PathGlob), TextV(PathHomeR), TextV(PathRelK),
                TextV(PathX), TextV(PathNone), NoneV }

RECURSIVE SeqsUpTo(_, _)
SeqsUpTo(S, n) ==
  IF n = 0 THEN { <<>> }
  ELSE SeqsUpTo(S, n - 1)
       \cup { Append(q, x) : q \in { r \in SeqsUpTo(S, n - 1) : Len(r) = n - 1 }, x \in S }

NameSpace == <<"n","S">>
EnvConfig == <<"N","S","_","C","O","N","F","I","G">>
EnvAB == <<"N","S","_","A","_","B">>
EnvC == <<"N","S","_","C">>
NoEnv == <<>>
NoDefaults == [none |-> TRUE, table |-> NoTable]

KeyAB == <<"a",".","b">>
KeyC == <<"c">>
KeyAC == <<"a",".","c">>
TextDflt == <<"d","f","l","t">>
TextEnv == <<"e","n","v">>

FilesEnvs ==
  { NoEnv,
    EnvConfig :> <<>>,
    EnvConfig :> PathX,
    EnvConfig :> PathD,
    (EnvConfig :> PathX) @@ (EnvAB :> TextEnv) }

InitCommon ==
  /\ phase = "new"
  /\ namespace = NameSpace
  /\ search_files = <<>>
  /\ final_config_files = <<>>
  /\ found_files = <<>>
  /\ parser = EmptyParser
  /\ defaults = NoTable
  /\ seen_keys = {}
  /\ ret = NoRet
  /\ prev = NoPrev
  /\ asked = <<>>
  /\ envchanges = 0

(***************************************************************************)
(* SpecFiles: construction over varied candidate lists, environments and   *)
(* file systems, then one lookup.                                          *)
(***************************************************************************)
InitFiles ==
  /\ InitCommon
  /\ config_files \in SeqsUpTo(Candidates, MaxCandidates)
  /\ defaults_arg = NoDefaults
  /\ environ \in FilesEnvs
  /\ files \in {FsFull, FsSparse}
  /\ budget = MaxFileCalls

NextFiles ==
  \/ Construct
  \/ GetStr({KeyAB, KeyC, KeyAC}, {TextV(TextDflt)}, {<<>>})

SpecFiles == InitFiles /\ [][NextFiles]_vars

Range(q) == { q[i] : i \in 1..Len(q) }
Ascending(q) == \A i \in 1..(Len(q) - 1) : TextLess(q[i], q[i + 1])

\* list is, candidate after candidate, the matches of the candidate in
\* ascending order.
RECURSIVE SegmentsOf(_, _)
SegmentsOf(list, cands) ==
  IF cands = <<>> THEN list = <<>>
  ELSE /\ Cardinality(glob(cands[1])) <= Len(list)
       /\ Range(SubSeq(list, 1, Cardinality(glob(cands[1])))) = glob(cands[1])
       /\ Ascending(SubSeq(list, 1, Cardinality(glob(cands[1]))))
       /\ SegmentsOf(SubSeq(list, Cardinality(glob(cands[1])) + 1, Len(list)), Tail(cands))

ExplicitPaths == SelectSeq(config_files, LAMBDA c : c # NoneV)

\* File number i of the final list defines option (section, key).
FileDefines(i, section, key) ==
  /\ final_config_files[i] \in DOMAIN files
  /\ \E j \in 1..Len(files[final_config_files[i]]) :
       /\ files[final_config_files[i]][j][1] = section
       /\ Lower(files[final_config_files[i]][j][2]) = Lower(key)

LastDefining(section, key) ==
  CHOOSE i \in 1..Len(final_config_files) :
    /\ FileDefines(i, section, key)
    /\ \A k \in (i + 1)..Len(final_config_files) : ~FileDefines(k, section, key)

ValueIn(i, section, key) ==
  files[final_config_files[i]][
    CHOOSE j \in 1..Len(files[final_config_files[i]]) :
      /\ files[final_config_files[i]][j][1] = section
      /\ Lower(files[final_config_files[i]][j][2]) = Lower(key)
      /\ \A k \in (j + 1)..Len(files[final_config_files[i]]) :
           ~(/\ files[final_config_files[i]][k][1] = section
             /\ Lower(files[final_config_files[i]][k][2]) = Lower(key))][3]

RetSection == config_section_of(split_section(ret.key))
RetEntry == split_entry(ret.key)
RetEnvKey == _env_key(split_entry(ret.key), split_section(ret.key))
Answered == ret.op \in {"get", "getstr", "getitem"} /\ ret.exc = "none" /\ ~ret.stale

\* C3: the final file list is, in candidate order (the explicit candidates,
\* then the one named by NS_CONFIG), each candidate's matches in ascending
\* order; and a lookup whose environment variable is unset returns, for an
\* option some file of the list defines, the value of the last such file.
C3_LaterFileWins ==
  /\ phase # "new" =>
       /\ SegmentsOf(final_config_files, search_files)
       /\ Len(search_files) =
            Len(ExplicitPaths) + (IF EnvConfig \in DOMAIN environ THEN 1 ELSE 0)
       /\ \A i \in 1..Len(ExplicitPaths) :
            search_files[i] = search_path(ExplicitPaths[i].s)
       /\ EnvConfig \in DOMAIN environ =>
            search_files[Len(search_files)] = search_path(environ[EnvConfig])
  /\ (/\ Answered
      /\ RetEnvKey \notin DOMAIN environ
      /\ \E i \in 1..Len(final_config_files) : FileDefines(i, RetSection, RetEntry))
     => ret.value = TextV(ValueIn(LastDefining(RetSection, RetEntry), RetSection, RetEntry))

\* C3 witness: /x, named by NS_CONFIG, answers a.b although two explicit
\* candidates matched files that define a.b too.
C3_Witness ==
  /\ Answered
  /\ ret.key = KeyAB
  /\ EnvAB \notin DOMAIN environ
  /\ EnvConfig \in DOMAIN environ
  /\ environ[EnvConfig] = PathX
  /\ Len(config_files) = 2
  /\ Cardinality({ i \in 1..Len(final_config_files) : FileDefines(i, SecA, OptB) }) >= 3
  /\ ret.value = TextV(<<"x">>)

\* C4 as stated: with NS_CONFIG unset or empty, the candidates searched are
\* exactly the explicit ones.
C4_EmptyConfigIgnored ==
  (/\ phase # "new"
   /\ (EnvConfig \notin DOMAIN environ \/ environ[EnvConfig] = <<>>))
  => /\ search_files = build_search_files(config_files)
     /\ final_config_files = build_final_config_files(build_search_files(config_files))

(***************************************************************************)
(* Spec: the precedence chain.  The getter reads /d (two files), under     *)
(* varied default tables, while the environment changes; one getstr call.  *)
(***************************************************************************)
MaxChainCalls == 1

OptE == <<"e">>
KeyBC == <<"B",".","c">>
KeyDotC == <<".","c">>
KeyABC == <<"a",".","b",".","c">>
KeyA_B == <<"a","_","b">>
KeyAUpperB == <<"a",".","B">>
KeyE == <<"e">>
KeyAE == <<"a",".","e">>
ChainKeys == { KeyAB, KeyC, KeyAC, KeyBC, KeyDotC, KeyABC, KeyA_B, KeyAUpperB, KeyE, KeyAE }

EnvE == <<"N","S","_","E">>
EnvABdotC == <<"N","S","_","A","_","B",".","C">>
ChainEnvNames == { EnvAB, EnvC, EnvE, EnvABdotC }
ChainEnvValues == { <<>>, TextEnv }

TextTd == <<"t","d">>
TextTab == <<"t","a","b">>
TextBare == <<"b","a","r","e">>

\* a table keyed by config sections ('DEFAULT' for keys without a section)
TableDefault ==
  [none |-> FALSE,
   table |-> (DEFAULTSECT :> ((OptE :> TextV(TextTd)) @@ (OptC :> TextV(TextTd))))
             @@ (SecA :> ((OptB :> TextV(TextTab)) @@ (OptE :> IntV(5))))
             @@ (<<"B">> :> (OptC :> TextV(TextTab)))]
\* a table keyed by the bare section token ('' for keys without a section)
TableBare ==
  [none |-> FALSE,
   table |-> (<<>> :> ((OptE :> TextV(TextBare)) @@ (OptC :> TextV(TextBare))))
             @@ (SecA :> (<<"b",".","c">> :> TextV(TextTab)))]
\* both
TableBoth ==
  [none |-> FALSE,
   table |-> (<<>> :> (OptE :> TextV(TextBare)))
             @@ (DEFAULTSECT :> (OptE :> TextV(TextTd)))]

Init ==
  /\ InitCommon
  /\ config_files = <<TextV(PathD)>>
  /\ defaults_arg \in { NoDefaults, TableDefault, TableBare, TableBoth }
  /\ environ = NoEnv
  /\ files = FsFull
  /\ budget = MaxChainCalls

Next ==
  \/ Construct
  \/ SetEnv(ChainEnvNames, ChainEnvValues)
  \/ UnsetEnv(ChainEnvNames)
  \/ GetStr(ChainKeys, {TextV(TextDflt), NoneV}, {<<>>})

Spec == Init /\ [][Next]_vars

InTable(section, key) == section \in DOMAIN defaults /\ key \in DOMAIN defaults[section]

\* C1: the value a lookup returns comes from the first of environment, parsed
\* store, default table, caller default that has the key; a set environment
\* variable (even an empty one) is returned verbatim whatever the others hold.
C1_Precedence ==
  Answered =>
    ret.value =
      IF RetEnvKey \in DOMAIN environ THEN TextV(environ[RetEnvKey])
      ELSE IF parser_has(RetSection, RetEntry) THEN TextV(parser_get(RetSection, RetEntry))
      ELSE IF InTable(RetSection, RetEntry) THEN defaults[RetSection][RetEntry]
      ELSE ret.default

\* C1 witness: NS_A_B is set to the empty text; the files and the default
\* table both hold a.b; getstr returns the empty text.
C1_Witness ==
  /\ Answered
  /\ ret.key = KeyAB
  /\ EnvAB \in DOMAIN environ
  /\ environ[EnvAB] = <<>>
  /\ parser_has(SecA, OptB)
  /\ InTable(SecA, OptB)
  /\ ret.default = TextV(TextDflt)
  /\ ret.value = TextV(<<>>)

DotsOf(K) == { i \in 1..Len(K) : K[i] = "." }
FirstDot(K) == CHOOSE i \in DotsOf(K) : \A j \in DotsOf(K) : i <= j
ClaimSection(K) == IF DotsOf(K) = {} THEN <<>> ELSE SubSeq(K, 1, FirstDot(K) - 1)
ClaimEntry(K) == IF DotsOf(K) = {} THEN K ELSE SubSeq(K, FirstDot(K) + 1, Len(K))
ClaimEnvVar(K) ==
  IF ClaimSection(K) = <<>>
  THEN Upper(namespace) \o <<"_">> \o Upper(ClaimEntry(K))
  ELSE Upper(namespace) \o <<"_">> \o Upper(ClaimSection(K)) \o <<"_">> \o Upper(ClaimEntry(K))
ClaimConfigSection(K) == IF ClaimSection(K) = <<>> THEN DEFAULTSECT ELSE ClaimSection(K)

\* C10: a key is split at its first '.', the environment variable read is
\* NAMESPACE[_SECTION]_ENTRY upper-cased part by part, and the store lookup
\* and the ConfigKey record use 'DEFAULT' for the empty section.
C10_KeyMapping ==
  Answered =>
    /\ seen_keys = ret.before \cup
         { ConfigKey(ClaimConfigSection(ret.key), ClaimEntry(ret.key),
                     ClaimEnvVar(ret.key), ret.doc) }
    /\ ClaimEnvVar(ret.key) \in DOMAIN environ =>
         ret.value = TextV(environ[ClaimEnvVar(ret.key)])
    /\ (/\ ClaimEnvVar(ret.key) \notin DOMAIN environ
        /\ parser_has(ClaimConfigSection(ret.key), ClaimEntry(ret.key)))
       => ret.value = TextV(parser_get(ClaimConfigSection(ret.key), ClaimEntry(ret.key)))
    /\ (/\ ClaimEnvVar(ret.key) \notin DOMAIN environ
        /\ ~parser_has(ClaimConfigSection(ret.key), ClaimEntry(ret.key))
        /\ ~InTable(ClaimConfigSection(ret.key), ClaimEntry(ret.key)))
       => ret.value = ret.default

\* C10 witness: key a.b.c is read from NS_A_B.C (section a, entry b.c).
C10_Witness ==
  /\ Answered
  /\ ret.key = KeyABC
  /\ EnvABdotC \in DOMAIN environ
  /\ environ[EnvABdotC] = TextEnv
  /\ ret.value = TextV(TextEnv)
  /\ ConfigKey(SecA, <<"b",".","c">>, EnvABdotC, <<>>) \in seen_keys

(***************************************************************************)
(* SpecTyped: the typed accessors.  The getter reads ~/r, whose section t  *)
(* holds numbers, a list and a switch; one call                             *)
(* of any accessor with any default.                                       *)
(***************************************************************************)
MaxTypedCalls == 1

KeyTI == <<"t",".","i">>
KeyTF == <<"t",".","f">>
KeyTL == <<"t",".","l">>
KeyTO == <<"t",".","o">>
KeyTD == <<"t",".","d">>
KeyTV == <<"t",".","v">>
KeyTZ == <<"t",".","z">>
TypedKeys == { KeyTI, KeyTF, KeyTL, KeyTO, KeyTD, KeyTV, KeyTZ }

EnvTV == <<"N","S","_","T","_","V">>
TextX7 == <<"x","7">>
TextN == <<"n">>
TextList == <<"a",","," ","b">>
TableOf(v) == [none |-> FALSE, table |-> (SecT :> (<<"d">> :> v))]

\* the default table and the environment of a run
TypedSetups ==
  { <<NoDefaults, NoEnv>>,
    <<TableOf(TextV(TextN)), EnvTV :> TextX7>>,
    <<TableOf(IntV(5)), EnvTV :> <<" ","4">>>>,
    <<TableOf(FloatV(25, 1)), NoEnv>>,
    <<TableOf(ListV(<<<<"a">>>>)), NoEnv>>,
    <<TableOf(NoneV), EnvTV :> TextX7>> }

TypedDefaults ==
  { NoneV, TextV(TextList), TextV(<<>>), BoolV(TRUE), BoolV(FALSE), IntV(7),
    FloatV(15, 1), ListV(<<<<"a">>, <<"b">>>>), TupleV(<<<<"a">>>>) }

InitTyped ==
  /\ InitCommon
  /\ config_files = <<TextV(PathHomeR)>>
  /\ \E setup \in TypedSetups : defaults_arg = setup[1] /\ environ = setup[2]
  /\ files = FsFull
  /\ budget = MaxTypedCalls

NextTyped ==
  \/ Construct
  \/ GetStr(TypedKeys, TypedDefaults, {<<>>})
  \/ GetList(TypedKeys, TypedDefaults, {<<>>}, {",", ";"})
  \/ GetBool(TypedKeys, TypedDefaults, {<<>>})
  \/ GetInt(TypedKeys, TypedDefaults, {<<>>})
  \/ GetFloat(TypedKeys, TypedDefaults, {<<>>})

SpecTyped == InitTyped /\ [][NextTyped]_vars

Accessors == {"getstr", "getlist", "getbool", "getint", "getfloat"}
TypedCall == ret.op \in Accessors /\ ~ret.stale

\* The key of the last call is in none of the three sources.
AbsentEverywhere ==
  /\ RetEnvKey \notin DOMAIN environ
  /\ ~parser_has(RetSection, RetEntry)
  /\ ~InTable(RetSection, RetEntry)

\* The default types each accessor is documented to take.
DocumentedDefault(op, d) ==
  \/ d.t = "none"
  \/ op = "getstr" /\ d.t = "text"
  \/ op = "getlist" /\ d.t \in {"text", "list", "tuple"}
  \/ op = "getbool" /\ d.t = "bool"
  \/ op = "getint" /\ d.t = "int"
  \/ op = "getfloat" /\ d.t = "float"

\* C5 as stated: a key found nowhere gives back the caller's default as it
\* is, for every default the accessor accepts.
C5_DefaultUnchanged ==
  (TypedCall /\ AbsentEverywhere /\ ret.exc # "AssertionError")
  => (ret.exc = "none" /\ ret.value = ret.default)

\* C5 (amended): a key found nowhere gives back the caller's default as it is,
\* except that getlist returns a sequence default as a list of the same
\* elements and a text default split on the separator (pieces stripped, empty
\* ones dropped), and getint returns a boolean default as the integer 1 or 0.
C5_DefaultReturned ==
  (TypedCall /\ AbsentEverywhere /\ ret.exc # "AssertionError")
  => /\ ret.exc = "none"
     /\ ret.value =
          IF ret.op = "getlist" /\ ret.default.t \in {"list", "tuple"}
          THEN ListV(ret.default.l)
          ELSE IF ret.op = "getlist" /\ ret.default.t = "text"
          THEN ListV(SelectNonEmpty([i \in 1..Len(SplitAll(ret.default.s, ret.sep)) |->
                                       Strip(SplitAll(ret.default.s, ret.sep)[i])]))
          ELSE IF ret.op = "getint" /\ ret.default.t = "bool"
          THEN IntV(ret.default.n)
          ELSE ret.default

\* C5 witness: getlist('t.z', 'a, b') finds t.z nowhere and returns ['a', 'b'].
C5_Witness ==
  /\ TypedCall
  /\ AbsentEverywhere
  /\ ret.op = "getlist"
  /\ ret.key = KeyTZ
  /\ ret.sep = ","
  /\ ret.default = TextV(TextList)
  /\ ret.exc = "none"
  /\ ret.value = ListV(<<<<"a">>, <<"b">>>>)

\* C7 as stated: a default of another type than the accessor's is refused
\* before any source is read: nothing is returned, seen_keys is unchanged.
C7_WrongTypeRefused ==
  (TypedCall /\ ~DocumentedDefault(ret.op, ret.default))
  => (ret.exc = "AssertionError" /\ ret.value = NoneV /\ seen_keys = ret.before)

\* C7 (amended): the same, except that getint takes a boolean default for an
\* integer.
C7_InvalidDefaultRefused ==
  (/\ TypedCall
   /\ ~DocumentedDefault(ret.op, ret.default)
   /\ ~(ret.op = "getint" /\ ret.default.t = "bool"))
  => (ret.exc = "AssertionError" /\ ret.value = NoneV /\ seen_keys = ret.before)

\* C7 witness: getfloat('t.f', 7) is refused although the files hold t.f.
C7_Witness ==
  /\ TypedCall
  /\ ret.op = "getfloat"
  /\ ret.key = KeyTF
  /\ ret.default = IntV(7)
  /\ parser_has(SecT, <<"f">>)
  /\ ret.exc = "AssertionError"
  /\ seen_keys = {}

\* The texts of the explored runs that are no number.
NotANumber == { TextX7, TextN, <<"O","n">>,
                <<" ","a",","," ","b"," ",",",",","c"," ">> }

\* The text the sources hold for the key of the last call, if any.
SourceHasText ==
  \/ RetEnvKey \in DOMAIN environ
  \/ parser_has(RetSection, RetEntry)
  \/ InTable(RetSection, RetEntry) /\ defaults[RetSection][RetEntry].t = "text"
SourceText ==
  IF RetEnvKey \in DOMAIN environ THEN environ[RetEnvKey]
  ELSE IF parser_has(RetSection, RetEntry) THEN parser_get(RetSection, RetEntry)
  ELSE defaults[RetSection][RetEntry].s

\* C8: getint and getfloat raise when the text the environment, the files or
\* the default table hold for the key is no number; they return neither the
\* default nor None.
C8_MalformedNumberRaises ==
  (/\ TypedCall
   /\ ret.op \in {"getint", "getfloat"}
   /\ ret.exc # "AssertionError"
   /\ SourceHasText
   /\ SourceText \in NotANumber)
  => (ret.exc = "ValueError" /\ ret.value = NoneV)

\* C8 witness: NS_T_V is 'x7'; getint('t.v', 7) raises.
C8_Witness ==
  /\ TypedCall
  /\ ret.op = "getint"
  /\ ret.key = KeyTV
  /\ ret.default = IntV(7)
  /\ EnvTV \in DOMAIN environ
  /\ environ[EnvTV] = TextX7
  /\ ret.exc = "ValueError"

(***************************************************************************)
(* SpecKeys: the record of the keys asked for.  Several calls in a row,    *)
(* some answered by the environment, the files, the table or the default,  *)
(* some failing, then list_keys.                                           *)
(***************************************************************************)
MaxCalls == 4

DocD == <<"d">>
KeysOfKeys == { KeyAB, KeyC, KeyE }

InitKeys ==
  /\ InitCommon
  /\ config_files = <<TextV(PathD)>>
  /\ \/ defaults_arg = NoDefaults /\ environ = NoEnv
     \/ defaults_arg = TableDefault /\ environ = (EnvAB :> TextEnv)
  /\ files = FsFull
  /\ budget = MaxCalls

NextKeys ==
  \/ Construct
  \/ GetStr(KeysOfKeys, {TextV(<<>>)}, {<<>>, DocD})
  \/ GetInt(KeysOfKeys, {IntV(0), TextV(<<>>)}, {<<>>})
  \/ GetItem({SecA}, {OptB})
  \/ ListKeys

SpecKeys == InitKeys /\ [][NextKeys]_vars

\* The record the claim describes for a (key, doc) pair that was looked up.
ClaimRecord(kd) ==
  ConfigKey(ClaimConfigSection(kd[1]), ClaimEntry(kd[1]), ClaimEnvVar(kd[1]), kd[2])

\* Tuples of texts compare field by field.
RECURSIVE FieldsLess(_, _)
FieldsLess(a, b) ==
  IF a = <<>> THEN FALSE
  ELSE IF a[1] # b[1] THEN TextLess(a[1], b[1])
  ELSE FieldsLess(Tail(a), Tail(b))
FieldsOf(r) == <<r.section, r.entry, r.envvar, r.doc>>

\* C6: seen_keys holds exactly the records of the (key, doc) pairs looked up
\* so far, whichever source answered; a call removes none; list_keys returns
\* them in ascending order of (section, entry, envvar, doc), each once, and
\* leaves the set as it was.
C6_SeenKeys ==
  /\ seen_keys = { ClaimRecord(asked[i]) : i \in 1..Len(asked) }
  /\ ret.before \subseteq seen_keys
  /\ ret.op = "list_keys" =>
       /\ seen_keys = ret.before
       /\ Range(ret.keys) = seen_keys
       /\ Len(ret.keys) = Cardinality(seen_keys)
       /\ \A i \in 1..(Len(ret.keys) - 1) :
            FieldsLess(FieldsOf(ret.keys[i]), FieldsOf(ret.keys[i + 1]))

\* C6 witness: a.b, a.b again, then c were resolved; list_keys returns two
\* records, (DEFAULT, c) before (a, b).
C6_Witness ==
  /\ asked = << <<KeyAB, <<>>>>, <<KeyAB, <<>>>>, <<KeyC, <<>>>> >>
  /\ ret.op = "list_keys"
  /\ ret.keys = << ConfigKey(DEFAULTSECT, OptC, EnvC, <<>>),
                   ConfigKey(SecA, OptB, EnvAB, <<>>) >>

(***************************************************************************)
(* SpecView: reads through the section proxy while the environment changes *)
(***************************************************************************)
MaxViewCalls == 2

InitView ==
  /\ InitCommon
  /\ config_files = <<TextV(PathD)>>
  /\ defaults_arg \in { NoDefaults, TableDefault }
  /\ environ = NoEnv
  /\ files = FsFull
  /\ budget = MaxViewCalls

NextView ==
  \/ Construct
  \/ SetEnv({EnvAB, EnvC}, ChainEnvValues)
  \/ UnsetEnv({EnvAB, EnvC})
  \/ GetItem({SecA, <<>>, <<"B">>, KeyAB}, {OptB, OptC, OptE})

SpecView == InitView /\ [][NextView]_vars

\* C9: view[e] on get_section(s) returns what getstr('s.e', '', '') returns
\* and records the same ConfigKey; nothing is cached, each read gives the
\* value the sources hold at that read.
C9_SectionView ==
  (ret.op = "getitem" /\ ~ret.stale) =>
    /\ ret.exc = getstr(ret.section \o <<".">> \o ret.entry, TextV(<<>>), <<>>).exc
    /\ ret.value = getstr(ret.section \o <<".">> \o ret.entry, TextV(<<>>), <<>>).value
    /\ seen_keys = ret.before
         \cup getstr(ret.section \o <<".">> \o ret.entry, TextV(<<>>), <<>>).seen

\* C9 witness: two reads of view a, entry b, with NS_A_B set in between: the
\* second read returns the environment's value, the first returned the file's.
C9_Witness ==
  /\ ret.op = "getitem"
  /\ ~ret.stale
  /\ ret.section = SecA
  /\ ret.entry = OptB
  /\ prev.fresh
  /\ prev.key = ret.key
  /\ prev.value = TextV(<<"9">>)
  /\ ret.value = TextV(TextEnv)

====
